---- MODULE Spec2Model ----
(***************************************************************************)
(* Model of src/models/modules.py: the layer generators (LayerGen          *)
(* subclasses), the recursive block generator BlockGen (construction and   *)
(* forward with its list-of-lists state), and ModelGen.                    *)
(*                                                                         *)
(* Python lists are mutable objects with identity: the state containers    *)
(* live in `heap` (address -> list of slots) and a container is passed    *)
(* around as a reference, so that in-place writes and aliasing are         *)
(* visible.  Tensors are abstracted to [ch, hw, v]: channel count, spatial *)
(* size and one integer standing for the numeric content.                  *)
(*                                                                         *)
(* Two further specifications model src/utils/anchors.py (AnchorGenerator *)
(* and its cached table, SpecAnchors) and the state threading of          *)
(* src/models/backbone/resnet.py (_process_layer and _forward_impl of     *)
(* ResNetBackbone with its blocks, SpecResNet).                            *)
(***************************************************************************)
EXTENDS Integers, Sequences, FiniteSets, TLC

\* ------------------------------------------------------------------ bounds
\* Number of forward calls of one run.
MaxSteps == 2

Min(a, b) == IF a < b THEN a ELSE b

\* ------------------------------------------------------- layer generators
\* A ListGen element is either a LayerGen or a nested list of branches.
Pass == [kind |-> "Pass", out |-> 0, ptype |-> "", sub |-> <<>>]
Conv(o) == [kind |-> "Conv", out |-> o, ptype |-> "", sub |-> <<>>]
Pool(t) == [kind |-> "Pool", out |-> 0, ptype |-> t, sub |-> <<>>]
Norm == [kind |-> "Norm", out |-> 0, ptype |-> "", sub |-> <<>>]
LIF == [kind |-> "LIF", out |-> 0, ptype |-> "", sub |-> <<>>]
Return == [kind |-> "Return", out |-> 0, ptype |-> "", sub |-> <<>>]
ListGen(branches) == [kind |-> "list", out |-> 0, ptype |-> "", sub |-> branches]

\* ------------------------------------------------------------ nn modules
\* inst = FALSE is a class object (not an nn.Module instance); id is the
\* identity of the instance (0 for a class object).
Module(cls, inst, id, inc, outc) ==
    [cls |-> cls, inst |-> inst, id |-> id, inc |-> inc, outc |-> outc,
     net |-> <<>>, branch_state |-> <<>>, out_channels |-> 0]

PoolClass(t) ==
    CASE t = "A" -> "AvgPool2d"
      [] t = "M" -> "MaxPool2d"
      [] t = "S" -> "SumPool2d"

\* LayerGen.get(in_channels): the layer, the output channels, and the next
\* free instance identity (nid is the last identity handed out).
PassGet(in_channels, nid) ==
    [layer |-> Module("Identity", FALSE, 0, 0, 0), channels |-> in_channels, nid |-> nid]

ConvGet_KeepIn(gen, in_channels, nid) ==
    [layer |-> Module("Conv2d", TRUE, nid + 1, in_channels, gen.out),
     channels |-> in_channels, nid |-> nid + 1]

ConvGet(gen, in_channels, nid) ==
    [layer |-> Module("Conv2d", TRUE, nid + 1, in_channels, gen.out),
     channels |-> gen.out, nid |-> nid + 1]

PoolGet(gen, in_channels, nid) ==
    [layer |-> Module(PoolClass(gen.ptype), TRUE, nid + 1, 0, 0),
     channels |-> in_channels, nid |-> nid + 1]

NormGet(in_channels, nid) ==
    [layer |-> Module("BatchNorm2d", TRUE, nid + 1, in_channels, in_channels),
     channels |-> in_channels, nid |-> nid + 1]

LIFGet(in_channels, nid) ==
    [layer |-> Module("LIFCell", TRUE, nid + 1, 0, 0),
     channels |-> in_channels, nid |-> nid + 1]

ReturnGet(in_channels, nid) ==
    [layer |-> Module("Storage", TRUE, nid + 1, 0, 0),
     channels |-> in_channels, nid |-> nid + 1]

Get(gen, in_channels, nid) ==
    CASE gen.kind = "Pass" -> PassGet(in_channels, nid)
      [] gen.kind = "Conv" -> ConvGet(gen, in_channels, nid)
      [] gen.kind = "Pool" -> PoolGet(gen, in_channels, nid)
      [] gen.kind = "Norm" -> NormGet(in_channels, nid)
      [] gen.kind = "LIF" -> LIFGet(in_channels, nid)
      [] gen.kind = "Return" -> ReturnGet(in_channels, nid)

IsModuleStateful_LIFOnly(layer) == layer.cls = "LIFCell"

\* norse's _is_module_stateful: the forward signature has a `state`
\* parameter (LIFCell.forward and BlockGen.forward do).
IsModuleStateful(layer) == layer.cls \in {"LIFCell", "BlockGen"}

\* nn.ModuleList(layer_list): add_module rejects what is not a Module instance.
ModuleListErr(layer_list) ==
    IF \E i \in 1..Len(layer_list) : ~layer_list[i].inst THEN "TypeError" ELSE "None"

\* --------------------------------------------------------- BlockGen.__init__
NestedChannels_Keep(layer, channels) == channels

\* channels = layer.out_channels after a nested BlockGen
NestedChannels(layer, channels) == layer.out_channels

RECURSIVE BlockGenNew(_, _, _)
RECURSIVE MakeBranchFrom(_, _, _, _, _, _)

\* The loop of _make_branch from element k on; layer_list, state_layers,
\* channels are the loop's locals.
MakeBranchFrom(cfg, k, layer_list, state_layers, channels, nid) ==
    IF k > Len(cfg)
    THEN [layer_list |-> layer_list, state_layers |-> state_layers,
          channels |-> channels, nid |-> nid, err |-> ModuleListErr(layer_list)]
    ELSE IF cfg[k].kind = "list"
         THEN LET b == BlockGenNew(channels, cfg[k].sub, nid)
              IN IF b.err # "None"
                 THEN [layer_list |-> layer_list, state_layers |-> state_layers,
                       channels |-> channels, nid |-> b.nid, err |-> b.err]
                 ELSE MakeBranchFrom(cfg, k + 1, Append(layer_list, b.layer),
                                     Append(state_layers, IsModuleStateful(b.layer)),
                                     NestedChannels(b.layer, channels), b.nid)
         ELSE LET g == Get(cfg[k], channels, nid)
              IN MakeBranchFrom(cfg, k + 1, Append(layer_list, g.layer),
                                Append(state_layers, IsModuleStateful(g.layer)),
                                g.channels, g.nid)

MakeBranch(in_channels, cfg, nid) ==
    MakeBranchFrom(cfg, 1, <<>>, <<>>, in_channels, nid)

RECURSIVE BlockGenFrom(_, _, _, _, _, _, _)
\* The loop of __init__ over cfgs from branch b on.
BlockGenFrom(in_channels, cfgs, b, branch_list, branch_state, out_channels, nid) ==
    IF b > Len(cfgs)
    THEN [layer |-> [cls |-> "BlockGen", inst |-> TRUE, id |-> nid + 1,
                     inc |-> in_channels, outc |-> out_channels,
                     net |-> branch_list, branch_state |-> branch_state,
                     out_channels |-> out_channels],
          nid |-> nid + 1, err |-> "None"]
    ELSE LET m == MakeBranch(in_channels, cfgs[b], nid)
         IN IF m.err # "None"
            THEN [layer |-> Module("BlockGen", TRUE, 0, 0, 0), nid |-> m.nid, err |-> m.err]
            ELSE BlockGenFrom(in_channels, cfgs, b + 1, Append(branch_list, m.layer_list),
                              Append(branch_state, m.state_layers), m.channels, m.nid)

BlockGenNew(in_channels, cfgs, nid) ==
    BlockGenFrom(in_channels, cfgs, 1, <<>>, <<>>, 0, nid)

\* ---------------------------------------------------------------- tensors
Tensor(ch, hw, v) == [ch |-> ch, hw |-> hw, v |-> v]

\* ------------------------------------------------------- state containers
\* A slot of a ListState: None, a layer's state value, or a reference to a
\* list object in the heap.
None == [t |-> "None", v |-> 0]
Val(n) == [t |-> "val", v |-> n]
Ref(a) == [t |-> "ref", v |-> a]

FreshBranchState_Short(branch) == [i \in 1..(Len(branch) - 1) |-> None]

FreshBranchState_Zero(branch) == [i \in 1..Len(branch) |-> Val(0)]

\* [None] * len(branch)
FreshBranchState(branch) == [i \in 1..Len(branch) |-> None]

\* [None] * len(self.net)
FreshState(net) == [i \in 1..Len(net) |-> None]

ReadSlot_First(branch_state, idx) == branch_state[1]

\* branch_state[idx]
ReadSlot(branch_state, idx) == branch_state[idx]

\* ------------------------------------------------------ layer forward calls
\* Firing threshold of the abstract LIF cell.
VTh == 8

\* snn.LIFCell()(Y, s): integrate the input onto the membrane value, spike and
\* reset at the threshold.  An absent state starts from the resting value.
LIFCellForward(Y, s) ==
    LET v0 == IF s.t = "val" THEN s.v ELSE 0
        v1 == v0 + Y.v
    IN IF v1 >= VTh
       THEN [Y |-> Tensor(Y.ch, Y.hw, 1), s |-> Val(0)]
       ELSE [Y |-> Tensor(Y.ch, Y.hw, 0), s |-> Val(v1)]

\* SumPool2d.forward: avg_pool2d * kernel_size * kernel_size
SumPool2dForward(Y) == Tensor(Y.ch, Y.hw \div 2, Y.v * 2 * 2)

StorageForward_KeepFirst(layer, X, ctx) ==
    [Y |-> X,
     ctx |-> [ctx EXCEPT
                !.stor = IF \E e \in ctx.stor : e.id = layer.id
                         THEN ctx.stor
                         ELSE ctx.stor \cup {[id |-> layer.id, X |-> X]},
                !.taps = @ \cup {[id |-> layer.id, X |-> X, Y |-> X]}]]

\* Storage.forward(X): self.storage = X; return X.  taps records, for the
\* running call, what each Storage instance received and returned.
StorageForward(layer, X, ctx) ==
    [Y |-> X,
     ctx |-> [ctx EXCEPT
                !.stor = {e \in ctx.stor : e.id # layer.id}
                             \cup {[id |-> layer.id, X |-> X]},
                !.taps = @ \cup {[id |-> layer.id, X |-> X, Y |-> X]}]]

\* Storage.get_storage() of the instance id: the attribute self.storage
\* (absent, an AttributeError, before the first forward).
GetStorage(storage, id) ==
    IF \E e \in storage : e.id = id
    THEN (CHOOSE e \in storage : e.id = id).X
    ELSE Tensor(0, 0, 0)

\* The stateless layers; ctx carries the heap, the Storage contents, the
\* call log, the taps and branch outputs of the call and the pending
\* exception.
CallStateless(layer, Y, ctx) ==
    CASE layer.cls = "Conv2d" ->
           IF Y.ch # layer.inc
           THEN [Y |-> Y, ctx |-> [ctx EXCEPT !.err = "RuntimeError"]]
           ELSE [Y |-> Tensor(layer.outc, Y.hw, 2 * Y.v + 1), ctx |-> ctx]
      [] layer.cls = "BatchNorm2d" ->
           IF Y.ch # layer.inc
           THEN [Y |-> Y, ctx |-> [ctx EXCEPT !.err = "RuntimeError"]]
           ELSE [Y |-> Y, ctx |-> ctx]
      [] layer.cls \in {"AvgPool2d", "MaxPool2d"} ->
           [Y |-> Tensor(Y.ch, Y.hw \div 2, Y.v), ctx |-> ctx]
      [] layer.cls = "SumPool2d" -> [Y |-> SumPool2dForward(Y), ctx |-> ctx]
      [] layer.cls = "Storage" -> StorageForward(layer, Y, ctx)
      [] OTHER -> [Y |-> Y, ctx |-> [ctx EXCEPT !.err = "TypeError"]]

StackSum_First(out) == out[1]

\* torch.stack(out).sum(dim=0)
StackSum(out) ==
    LET S[i \in 0..Len(out)] == IF i = 0 THEN 0 ELSE S[i - 1] + out[i].v
    IN Tensor(out[1].ch, out[1].hw, S[Len(out)])

\* torch.stack needs a non-empty list of tensors of one shape.
StackErr(out) ==
    IF out = <<>> \/ \E i \in 1..Len(out) : out[i].ch # out[1].ch \/ out[i].hw # out[1].hw
    THEN "RuntimeError" ELSE "None"

\* ---------------------------------------------------------- BlockGen.forward
RECURSIVE Forward(_, _, _, _, _)
RECURSIVE RunLayers(_, _, _, _, _, _, _)
RECURSIVE RunBranches(_, _, _, _, _, _, _, _, _)

\* The pair a nested graph returns, as the pair a stateful layer returns.
NestedResult(r) == [Y |-> r.Y, s |-> r.st, ctx |-> r.ctx]

\* The pair a LIF cell returns; the call is added to the log.
LIFResult(layer, slot, ctx, path, r) ==
    [Y |-> r.Y, s |-> r.s,
     ctx |-> [ctx EXCEPT !.log = @ \cup
                 {[path |-> path, id |-> layer.id, recv |-> slot, prod |-> r.s]}]]

\* layer(Y, branch_state[idx]) for a position whose flag is set.
CallStateful(layer, Y, slot, ctx, path) ==
    IF layer.cls = "BlockGen"
    THEN NestedResult(Forward(layer, Y, slot, ctx, path))
    ELSE IF layer.cls = "LIFCell" /\ slot.t # "ref"
         THEN LIFResult(layer, slot, ctx, path, LIFCellForward(Y, slot))
         ELSE [Y |-> Y, s |-> None, ctx |-> [ctx EXCEPT !.err = "TypeError"]]

\* Y, branch_state[idx] = r for the pair r a stateful layer returned (or
\* the exception it raised), and the rest of the inner loop.
StoreSlot(branch, state_flags, idx, Y, addr, path, r) ==
    IF r.ctx.err # "None"
    THEN [Y |-> Y, ctx |-> r.ctx]
    ELSE RunLayers(branch, state_flags, idx + 1, r.Y, addr,
                   [r.ctx EXCEPT !.heap[addr][idx] = r.s], path)

\* Y = r for the tensor r a stateless layer returned, and the rest of the
\* inner loop.
StoreOut(branch, state_flags, idx, addr, path, r) ==
    RunLayers(branch, state_flags, idx + 1, r.Y, addr, r.ctx, path)

\* The inner loop of forward from position idx on; addr is the list object
\* bound to branch_state.
RunLayers(branch, state_flags, idx, Y, addr, ctx, path) ==
    IF idx > Min(Len(branch), Len(state_flags)) \/ ctx.err # "None"
    THEN [Y |-> Y, ctx |-> ctx]
    ELSE IF state_flags[idx]
         THEN IF idx > Len(ctx.heap[addr])
              THEN [Y |-> Y, ctx |-> [ctx EXCEPT !.err = "IndexError"]]
              ELSE StoreSlot(branch, state_flags, idx, Y, addr, path,
                             CallStateful(branch[idx], Y, ReadSlot(ctx.heap[addr], idx),
                                          ctx, path \o <<idx>>))
         ELSE StoreOut(branch, state_flags, idx, addr, path,
                       CallStateless(branch[idx], Y, ctx))

\* out.append(Y); out_state.append(branch_state) for the result r of the
\* inner loop, and the rest of the outer loop.
AppendBranch(g, X, state, b, n, out, out_state, path, addr, r) ==
    RunBranches(g, X, state, b + 1, n, Append(out, r.Y),
                Append(out_state, Ref(addr)), r.ctx, path)

\* The outer loop of forward over zip(self.net, self.branch_state, state),
\* from branch b on; n is the length of the zip.
RunBranches(g, X, state, b, n, out, out_state, ctx, path) ==
    IF b > n \/ ctx.err # "None"
    THEN [out |-> out, out_state |-> out_state, ctx |-> ctx]
    ELSE IF state[b].t = "val"
         THEN [out |-> out, out_state |-> out_state,
               ctx |-> [ctx EXCEPT !.err = "TypeError"]]
         ELSE LET fresh == state[b] = None
                  heap1 == IF fresh THEN Append(ctx.heap, FreshBranchState(g.net[b]))
                                    ELSE ctx.heap
                  addr == IF fresh THEN Len(heap1) ELSE state[b].v
              IN AppendBranch(g, X, state, b, n, out, out_state, path, addr,
                              RunLayers(g.net[b], g.branch_state[b], 1, X, addr,
                                        [ctx EXCEPT !.heap = heap1], path \o <<b>>))

\* return torch.stack(out).sum(dim=0), out_state for the result r of the
\* outer loop; the outputs of the top-level branches are kept in outs.
Merge(X, path, r) ==
    IF r.ctx.err # "None"
    THEN [Y |-> X, st |-> None, ctx |-> r.ctx]
    ELSE IF StackErr(r.out) # "None"
         THEN [Y |-> X, st |-> None, ctx |-> [r.ctx EXCEPT !.err = StackErr(r.out)]]
         ELSE [Y |-> StackSum(r.out),
               st |-> Ref(Len(r.ctx.heap) + 1),
               ctx |-> [r.ctx EXCEPT !.heap = Append(@, r.out_state),
                                     !.outs = IF path = <<>> THEN r.out ELSE @]]

\* BlockGen.forward(X, state): the output tensor, the returned container
\* (a reference to the new out_state list) and the context after the call.
Forward(g, X, state, ctx, path) ==
    IF state.t = "val"
    THEN [Y |-> X, st |-> None, ctx |-> [ctx EXCEPT !.err = "TypeError"]]
    ELSE LET st0 == IF state = None THEN FreshState(g.net) ELSE ctx.heap[state.v]
             n == Min(Min(Len(g.net), Len(g.branch_state)), Len(st0))
         IN Merge(X, path, RunBranches(g, X, st0, 1, n, <<>>, <<>>, ctx, path))

\* ------------------------------------------------------ views of containers
\* The value of a container with the list identities dropped (what the
\* caller observes when reading it).
DeepLeaf(slot) == [t |-> slot.t, v |-> slot.v, items |-> <<>>]

RECURSIVE Deep(_, _)
Deep(heap, slot) ==
    IF slot.t = "ref"
    THEN [t |-> "list", v |-> 0,
          items |-> [i \in 1..Len(heap[slot.v]) |-> Deep(heap, heap[slot.v][i])]]
    ELSE DeepLeaf(slot)

\* The container at `slot` has the nested shape of graph g: one entry per
\* branch, one slot per layer position, a container per nested graph.  With
\* absentOK, an absent entry stands for any sub-container.
RECURSIVE Mirrors(_, _, _, _)
Mirrors(g, heap, slot, absentOK) ==
    \/ absentOK /\ slot = None
    \/ /\ slot.t = "ref"
       /\ Len(heap[slot.v]) = Len(g.net)
       /\ \A b \in 1..Len(g.net) :
            LET e == heap[slot.v][b]
            IN \/ absentOK /\ e = None
               \/ /\ e.t = "ref"
                  /\ Len(heap[e.v]) = Len(g.net[b])
                  /\ \A i \in 1..Len(g.net[b]) :
                       IF g.net[b][i].cls = "BlockGen"
                       THEN Mirrors(g.net[b][i], heap, heap[e.v][i], absentOK)
                       ELSE heap[e.v][i].t # "ref"

\* No LIFCell at any nesting depth.
RECURSIVE Stateless(_)
Stateless(g) ==
    \A b \in 1..Len(g.net) : \A i \in 1..Len(g.net[b]) :
        /\ g.net[b][i].cls # "LIFCell"
        /\ g.net[b][i].cls = "BlockGen" => Stateless(g.net[b][i])

\* Every slot of a leaf layer is None, at every depth.
RECURSIVE LeavesAbsent(_, _, _)
LeavesAbsent(g, heap, slot) ==
    \A b \in 1..Len(g.net) : \A i \in 1..Len(g.net[b]) :
        LET s == heap[heap[slot.v][b].v][i]
        IN IF g.net[b][i].cls = "BlockGen"
           THEN LeavesAbsent(g.net[b][i], heap, s)
           ELSE s = None

\* ------------------------------------------------------------------ inputs
InputHW == 4
InChannels == {3, 8}
InputVals == {1, 2}

BranchCfgs ==
    { <<>>,
      <<Conv(8), LIF, Conv(8)>>,
      <<Conv(9), LIF>>,
      <<Conv(8), Norm, Return>>,
      <<Pool("S"), Conv(8), LIF>>,
      <<Pass, Conv(8)>>,
      <<ListGen(<< <<Pass, Norm>> >>)>>,
      <<LIF, Conv(8), LIF>>,
      <<Norm, ListGen(<< <<Conv(8), LIF>> >>)>>,
      <<ListGen(<< <<Conv(8), LIF>>, <<Conv(8)>> >>), LIF>>,
      <<ListGen(<< <<Conv(8), Return, Pool("S")>>,
                   <<ListGen(<< <<Conv(8), Pool("A")>>, <<Pool("M"), Conv(8)>> >>)>> >>)>>,
      <<ListGen(<< <<Conv(8)>>, <<Conv(9)>> >>), Norm>>,
      <<ListGen(<< <<ListGen(<< <<LIF>>, <<LIF, Norm>> >>)>> >>), Conv(8)>> }

\* The trees given to BlockGen: every merge group of one or two of the
\* branches above, and some groups of three.
Cfgs ==
    {<<a>> : a \in BranchCfgs} \cup {<<a, b>> : a, b \in BranchCfgs} \cup
    { << <<Conv(8), LIF, Conv(8)>>, <<LIF, Conv(8), LIF>>, <<Conv(8), Norm, Return>> >>,
      << <<Conv(8)>>, <<LIF, Conv(8), LIF>>, <<Norm, ListGen(<< <<Conv(8), LIF>> >>)>> >>,
      << <<Conv(8), LIF>>, <<Conv(8)>>, <<Conv(9), LIF>> >> }

\* The presets a ModelGen subclass registers in _load_cfg.
DefaultCfgs ==
    [name \in {"small", "nested"} |->
        IF name = "small" THEN <<Conv(8), LIF, Conv(8)>>
        ELSE <<Norm, ListGen(<< <<Conv(8), LIF>> >>)>>]

PresetArgs == {"small", "nested", "resnet"}

Perms(n) == {p \in [1..n -> 1..n] : \A i, j \in 1..n : p[i] = p[j] => i = j}

\* ------------------------------------------------------------------- state
\* pc            "new" before construction, "failed" when the constructor
\*               raised, "ready" with a graph, "raised" when forward raised,
\*               "done" / "probed" at the end of a run
\* via, cfg      the class constructed and, for ModelGen, the preset name
\* cfgs          the tree given to BlockGen.__init__; in_channels likewise
\* net           the BlockGen (self.net of a ModelGen)
\* out_channels  ModelGen.out_channels
\* err           the exception raised by the last operation
\* heap          the list objects of the state containers, by address
\* stor          Storage.storage of each Storage instance that has run
\* ret, out      the container and the tensor the last forward returned
\* steps         forward calls made
\* call          the last forward call: its arguments, the value of the
\*               passed container before the call, the state each stateful
\*               layer received and produced (log), the previous log, what
\*               each Storage received and returned (taps), the outputs of
\*               the top-level branches (outs) and the Storage contents
\*               before the call (stor)
\* probe         the results recorded by PermuteProbe / InlineProbe
\* generator     an AnchorGenerator: sizes, ratios and the anchors attribute
\* acall         the last call of the generator: the feature map's height and
\*               width and the table returned
\* backbone      a ResNetBackbone running _forward_impl
VARIABLES pc, via, cfg, cfgs, in_channels, net, out_channels, err,
          heap, stor, ret, out, steps, call, probe,
          generator, acall, backbone

vars == <<pc, via, cfg, cfgs, in_channels, net, out_channels, err,
          heap, stor, ret, out, steps, call, probe,
          generator, acall, backbone>>

graphVars == <<pc, via, cfg, cfgs, in_channels, net, out_channels, err,
               heap, stor, ret, out, steps, call, probe>>
otherVars == <<generator, acall, backbone>>

NoNet == Module("BlockGen", FALSE, 0, 0, 0)
NoErr == [type |-> "None", args |-> {}]
NoCall == [kind |-> "", arg |-> None, snap |-> DeepLeaf(None), conforms |-> TRUE,
           X |-> Tensor(0, 0, 0), log |-> {}, prev |-> {},
           taps |-> {}, outs |-> <<>>, stor |-> {}]
NoProbe == [kind |-> "", p |-> <<>>, threaded |-> FALSE, b |-> 0, i |-> 0,
            errA |-> "None", errB |-> "None",
            outA |-> Tensor(0, 0, 0), outB |-> Tensor(0, 0, 0),
            stA |-> DeepLeaf(None), stB |-> DeepLeaf(None), flat |-> NoNet]

NoGenerator == [made |-> FALSE, sizes |-> 0, ratios |-> 0, has |-> FALSE, anchors |-> <<>>]
NoACall == [n |-> 0, H |-> 0, W |-> 0, ret |-> <<>>]
NoBackbone == [pc |-> "new", type |-> "", op |-> "", L |-> 0, n |-> 0, X |-> <<>>,
               given |-> DeepLeaf(None), inv |-> <<>>,
               new_state |-> DeepLeaf(None), err |-> "None"]

Init ==
    /\ pc = "new"
    /\ via = ""
    /\ cfg = ""
    /\ cfgs = <<>>
    /\ in_channels = 0
    /\ net = NoNet
    /\ out_channels = 0
    /\ err = NoErr
    /\ heap = <<>>
    /\ stor = {}
    /\ ret = None
    /\ out = Tensor(0, 0, 0)
    /\ steps = 0
    /\ call = NoCall
    /\ probe = NoProbe
    /\ generator = NoGenerator
    /\ acall = NoACall
    /\ backbone = NoBackbone

\* ------------------------------------------------------------ construction
\* BlockGen(ic, tree)
BlockGenInit(ic, tree) ==
    /\ pc = "new"
    /\ LET r == BlockGenNew(ic, tree, 0)
       IN /\ pc' = IF r.err = "None" THEN "ready" ELSE "failed"
          /\ net' = IF r.err = "None" THEN r.layer ELSE NoNet
          /\ err' = [type |-> r.err, args |-> {}]
    /\ via' = "BlockGen"
    /\ cfgs' = tree
    /\ in_channels' = ic
    /\ UNCHANGED <<cfg, out_channels, heap, stor, ret, out, steps, call, probe, otherVars>>

\* ModelGen(name, ic) of a subclass whose _load_cfg registers DefaultCfgs:
\* self.default_cfgs[cfg] raises KeyError(cfg) for a name that is not
\* registered.
ModelGenInitName(name, ic) ==
    /\ pc = "new"
    /\ via' = "ModelGen"
    /\ cfg' = name
    /\ in_channels' = ic
    /\ IF name \notin DOMAIN DefaultCfgs
       THEN /\ pc' = "failed"
            /\ err' = [type |-> "KeyError", args |-> {name}]
            /\ UNCHANGED <<cfgs, net, out_channels>>
       ELSE LET r == BlockGenNew(ic, <<DefaultCfgs[name]>>, 0)
            IN /\ pc' = IF r.err = "None" THEN "ready" ELSE "failed"
               /\ net' = IF r.err = "None" THEN r.layer ELSE NoNet
               /\ out_channels' = IF r.err = "None" THEN r.layer.out_channels ELSE 0
               /\ err' = [type |-> r.err, args |-> {}]
               /\ cfgs' = <<DefaultCfgs[name]>>
    /\ UNCHANGED <<heap, stor, ret, out, steps, call, probe, otherVars>>

\* ModelGen(literal, ic) with a list: the list is the single branch [cfg].
ModelGenInitList(literal, ic) ==
    /\ pc = "new"
    /\ via' = "ModelGen"
    /\ in_channels' = ic
    /\ LET r == BlockGenNew(ic, <<literal>>, 0)
       IN /\ pc' = IF r.err = "None" THEN "ready" ELSE "failed"
          /\ net' = IF r.err = "None" THEN r.layer ELSE NoNet
          /\ out_channels' = IF r.err = "None" THEN r.layer.out_channels ELSE 0
          /\ err' = [type |-> r.err, args |-> {}]
    /\ cfgs' = <<literal>>
    /\ UNCHANGED <<cfg, heap, stor, ret, out, steps, call, probe, otherVars>>

\* ---------------------------------------------------------------- execution
Ctx == [heap |-> heap, stor |-> stor, log |-> {}, taps |-> {}, outs |-> <<>>,
        err |-> "None"]

\* The caller's view after net(X, state) gave r (the result or the
\* exception); kind names how the caller got the container it passed.
AfterForward(kind, X, state, h, r) ==
       /\ pc' = IF r.ctx.err # "None" THEN "raised"
                ELSE IF kind = "built" THEN "done" ELSE "ready"
       /\ err' = [type |-> r.ctx.err, args |-> {}]
       /\ heap' = r.ctx.heap
       /\ stor' = r.ctx.stor
       /\ ret' = r.st
       /\ out' = IF r.ctx.err = "None" THEN r.Y ELSE out
       /\ steps' = steps + 1
       /\ call' = [kind |-> kind, arg |-> state, snap |-> Deep(h, state),
                   conforms |-> Mirrors(net, h, state, TRUE),
                   X |-> X, log |-> r.ctx.log, prev |-> call.log,
                   taps |-> r.ctx.taps, outs |-> r.ctx.outs, stor |-> stor]
       /\ probe' = NoProbe
       /\ UNCHANGED <<via, cfg, cfgs, in_channels, net, out_channels, otherVars>>

\* One call net(X, state) by the caller, with the heap h.
DoForward(kind, X, state, h) ==
    AfterForward(kind, X, state, h,
                 Forward(net, X, state, [Ctx EXCEPT !.heap = h], <<>>))

\* net(X): state absent.
ForwardAbsent(x) ==
    /\ pc = "ready"
    /\ steps < MaxSteps
    /\ DoForward("absent", Tensor(in_channels, InputHW, x), None, heap)

\* net(X, state) with the container the previous call returned.
ForwardThread(x) ==
    /\ pc = "ready"
    /\ steps < MaxSteps
    /\ ret # None
    /\ DoForward("thread", Tensor(in_channels, InputHW, x), ret, heap)

\* The lists of a caller-made container of absent slots: k branch entries,
\* entry j with d slots more (or fewer) than branch j has layers.
BuiltLists(k, d) ==
    [j \in 1..k |->
        LET n == IF j <= Len(net.net) THEN Len(net.net[j]) + d ELSE d
        IN [i \in 1..(IF n > 0 THEN n ELSE 0) |-> None]]

\* net(X, state) with a container the caller made itself.
ForwardBuilt(x, k, d) ==
    /\ pc = "ready"
    /\ steps = 0
    /\ LET lists == BuiltLists(k, d)
           outer == [j \in 1..k |-> Ref(Len(heap) + j)]
           h == Append(heap \o lists, outer)
       IN DoForward("built", Tensor(in_channels, InputHW, x), Ref(Len(h)), h)

\* ------------------------------------------------------------------ probes
\* The merge group with its branches reordered: branch j of the result is
\* branch p[j] of g (the same layer instances).
Permute(g, p) ==
    [g EXCEPT !.net = [j \in 1..Len(g.net) |-> g.net[p[j]]],
              !.branch_state = [j \in 1..Len(g.net) |-> g.branch_state[p[j]]]]

\* The record of the two results A and B of a permutation probe.
PermuteResult(p, threaded, A, B) ==
    [NoProbe EXCEPT !.kind = "permute", !.p = p, !.threaded = threaded,
                    !.errA = A.ctx.err, !.errB = B.ctx.err,
                    !.outA = A.Y, !.outB = B.Y,
                    !.stA = Deep(A.ctx.heap, A.st),
                    !.stB = Deep(B.ctx.heap, B.st)]

\* One call of the graph and one call of the reordered graph, both from the
\* present state and with the same X: with the container the last call
\* returned (its branch entries reordered alike for the second call), or
\* with state absent.  Only the two results are recorded, and the run ends.
PermuteProbe(p, x, threaded) ==
    /\ pc = "ready"
    /\ threaded => ret # None
    /\ \E j \in 1..Len(net.net) : p[j] # j
    /\ LET X == Tensor(in_channels, InputHW, x)
           hB == IF threaded
                 THEN Append(heap, [j \in 1..Len(heap[ret.v]) |-> heap[ret.v][p[j]]])
                 ELSE heap
       IN probe' = PermuteResult(p, threaded,
                     Forward(net, X, IF threaded THEN ret ELSE None, Ctx, <<>>),
                     Forward(Permute(net, p), X, IF threaded THEN Ref(Len(hB)) ELSE None,
                             [Ctx EXCEPT !.heap = hB], <<>>))
    /\ pc' = "probed"
    /\ UNCHANGED <<via, cfg, cfgs, in_channels, net, out_channels, err,
                   heap, stor, ret, out, steps, call, otherVars>>

\* The tree with the nested single-branch tree at element i of branch b
\* replaced by its elements.
Inlined(tree, b, i) ==
    [tree EXCEPT ![b] = SubSeq(tree[b], 1, i - 1) \o tree[b][i].sub[1]
                        \o SubSeq(tree[b], i + 1, Len(tree[b]))]

\* BlockGen(in_channels, Inlined(cfgs, b, i)) next to the construction from
\* cfgs (which succeeded or raised); the run ends.
InlineProbe(b, i) ==
    /\ pc \in {"ready", "failed"}
    /\ steps = 0
    /\ cfgs[b][i].kind = "list"
    /\ Len(cfgs[b][i].sub) = 1
    /\ LET r == BlockGenNew(in_channels, Inlined(cfgs, b, i), 0)
       IN probe' = [NoProbe EXCEPT !.kind = "inline", !.b = b, !.i = i,
                                   !.errB = r.err, !.flat = r.layer]
    /\ pc' = "probed"
    /\ UNCHANGED <<via, cfg, cfgs, in_channels, net, out_channels, err,
                   heap, stor, ret, out, steps, call, otherVars>>

Next ==
    \/ pc = "new" /\ \E ic \in InChannels, tree \in Cfgs : BlockGenInit(ic, tree)
    \/ pc = "new" /\ \E ic \in InChannels, name \in PresetArgs : ModelGenInitName(name, ic)
    \/ pc = "new" /\ \E ic \in InChannels, literal \in BranchCfgs : ModelGenInitList(literal, ic)
    \/ pc = "ready" /\ \E x \in InputVals : ForwardAbsent(x)
    \/ pc = "ready" /\ \E x \in InputVals : ForwardThread(x)
    \/ pc = "ready" /\ \E x \in InputVals, k \in 0..(Len(net.net) + 1), d \in {-1, 0, 1} :
          ForwardBuilt(x, k, d)
    \/ pc = "ready" /\ \E p \in Perms(Len(net.net)), x \in InputVals, threaded \in BOOLEAN :
          PermuteProbe(p, x, threaded)
    \/ pc \in {"ready", "failed"} /\ \E b \in 1..Len(cfgs) : \E i \in 1..Len(cfgs[b]) :
          InlineProbe(b, i)

Spec == Init /\ [][Next]_vars

\* ---------------------------------------------------------- AnchorGenerator
\* The lengths of the default sizes and ratios tuples, the largest height
\* and width of a feature map, and the calls made on one generator.
NumDefault == 3
MaxHW == 3
MaxCalls == 3

\* cal_anchors(X) for X of height in_height and width in_width: the table
\* out_grid + anchor_manipulations, row by row.  Row r is the box r mod
\* boxes_per_pixel centred on pixel r div boxes_per_pixel; a centre is kept
\* as the fraction <<2 * index + 1, 2 * extent>>, a box as the indices of the
\* size and the ratio it is made of and the in_height / in_width factor.
CalAnchors(sizes, ratios, in_height, in_width) ==
    LET boxes_per_pixel == sizes + ratios - 1
    IN [r \in 1..(in_height * in_width * boxes_per_pixel) |->
          LET pixel == (r - 1) \div boxes_per_pixel
              k == ((r - 1) % boxes_per_pixel) + 1
              i == pixel \div in_width
              j == pixel % in_width
          IN [cx |-> <<2 * j + 1, 2 * in_width>>,
              cy |-> <<2 * i + 1, 2 * in_height>>,
              size |-> IF k <= sizes THEN k ELSE 1,
              ratio |-> IF k <= sizes THEN 1 ELSE k - sizes + 1,
              scale |-> <<in_height, in_width>>,
              cols |-> 4]]

\* AnchorGenerator(sizes, ratios) with tuples of the given lengths.
AnchorGeneratorInit(sizes, ratios) ==
    /\ ~generator.made
    /\ generator' = [made |-> TRUE, sizes |-> sizes, ratios |-> ratios,
                     has |-> FALSE, anchors |-> <<>>]
    /\ UNCHANGED <<graphVars, acall, backbone>>

\* generator(X) for a feature map X of height H and width W: cal_anchors
\* runs only while the object has no attribute anchors.
AnchorCall(H, W) ==
    /\ generator.made
    /\ acall.n < MaxCalls
    /\ LET anchors == IF ~generator.has
                      THEN CalAnchors(generator.sizes, generator.ratios, H, W)
                      ELSE generator.anchors
       IN /\ generator' = [generator EXCEPT !.has = TRUE, !.anchors = anchors]
          /\ acall' = [n |-> acall.n + 1, H |-> H, W |-> W, ret |-> anchors]
    /\ UNCHANGED <<graphVars, backbone>>

NextAnchors ==
    \/ \E sizes, ratios \in 1..NumDefault : AnchorGeneratorInit(sizes, ratios)
    \/ \E H, W \in 1..MaxHW : AnchorCall(H, W)

SpecAnchors == Init /\ [][NextAnchors]_vars

\* ----------------------------------------------------------- ResNetBackbone
\* Time steps of one input X of _forward_impl.
MaxT == 2

\* ResNetBackbone.cfgs: the block class (by its number of LIF cells) and the
\* number of blocks of layer1..layer4.
ResNetCfgs ==
    [c \in {"18", "34", "50", "101"} |->
        CASE c = "18" -> [block |-> "BasicBlock", layers |-> <<2, 2, 2, 2>>]
          [] c = "34" -> [block |-> "BasicBlock", layers |-> <<3, 4, 6, 3>>]
          [] c = "50" -> [block |-> "Bottleneck", layers |-> <<3, 4, 6, 3>>]
          [] c = "101" -> [block |-> "Bottleneck", layers |-> <<3, 4, 23, 3>>]]

\* The arguments given for `type`: the registered keys and one that is not.
ResNetTypes == DOMAIN ResNetCfgs \cup {"20"}

\* Python values of the backbone's states: None, a tensor, a tuple, a list.
PyNone == DeepLeaf(None)
PyVal(n) == DeepLeaf(Val(n))
PyTuple(items) == [t |-> "tuple", v |-> 0, items |-> items]
PyList(items) == [t |-> "list", v |-> 0, items |-> items]

\* container[i] (i counted from 1): None is not subscriptable.
GetItem(container, i) ==
    IF container.t \notin {"tuple", "list"}
    THEN [val |-> PyNone, err |-> "TypeError"]
    ELSE IF i > Len(container.items)
         THEN [val |-> PyNone, err |-> "IndexError"]
         ELSE [val |-> container.items[i], err |-> "None"]

\* container[i] = val: a tuple does not support item assignment.
SetItem(container, i, val) ==
    IF container.t # "list"
    THEN [val |-> container, err |-> "TypeError"]
    ELSE IF i > Len(container.items)
         THEN [val |-> container, err |-> "IndexError"]
         ELSE [val |-> PyList([container.items EXCEPT ![i] = val]), err |-> "None"]

\* The LIF cells of a block: lif1, lif2 (BasicBlock), lif3 (Bottleneck).
NumLIF(block) == IF block = "BasicBlock" THEN 2 ELSE 3

RECURSIVE BlockFrom(_, _, _, _, _, _, _)

\* out, new_state[j] = l for the pair l that lif j returned, the assignment
\* giving a (the changed new_state, or the exception), and the rest of the
\* block.
BlockAssign(block, x, rank, j, state, new_state, l, a) ==
    IF a.err # "None"
    THEN [out |-> l.Y, new_state |-> new_state, err |-> a.err]
    ELSE BlockFrom(block, x, rank, j + 1, l.Y, state, a.val)

\* lif j called on pre with the state g = state[j] (or the exception of
\* reading it).
BlockLIF(block, x, rank, j, y, state, new_state, pre, g, l) ==
    IF g.err # "None"
    THEN [out |-> y, new_state |-> new_state, err |-> g.err]
    ELSE BlockAssign(block, x, rank, j, state, new_state, l,
                     SetItem(new_state, j, DeepLeaf(l.s)))

\* The input of lif j for the output c of conv j and bn j: the residual x
\* is added before the last LIF.
BlockPre(block, x, j, c) ==
    IF j = NumLIF(block) THEN Tensor(c.ch, c.hw, c.v + x.v) ELSE c

\* The body of BasicBlock.forward / Bottleneck.forward from its j-th
\* conv, bn, lif group on.  rank is the number of dimensions of x: a
\* convolution takes 3 or 4.
BlockFrom(block, x, rank, j, y, state, new_state) ==
    IF j > NumLIF(block)
    THEN [out |-> y, new_state |-> new_state, err |-> "None"]
    ELSE IF rank > 4
    THEN [out |-> y, new_state |-> new_state, err |-> "RuntimeError"]
    ELSE LET pre == BlockPre(block, x, j, Tensor(y.ch, y.hw, 2 * y.v + 1))
         IN BlockLIF(block, x, rank, j, y, state, new_state, pre, GetItem(state, j),
                     LIFCellForward(pre, GetItem(state, j).val))

\* block(x, state): state and new_state start as tuples of None.
BlockForward(block, x, rank, state) ==
    LET nones == PyTuple([j \in 1..NumLIF(block) |-> PyNone])
    IN BlockFrom(block, x, rank, 1, x, IF state = PyNone THEN nones ELSE state, nones)

RECURSIVE ProcessLayerFrom(_, _, _, _, _, _, _, _, _)

\* out, state = r for the pair r the block returned (or its exception);
\* spikes.append(out); new_state.append(state); and the rest of the loop.
\* got is the state the block was invoked with.
ProcessLayerBind(block, n, idx, y, rank, spikes, new_state, inv, got, r) ==
    IF r.err # "None"
    THEN [x |-> y, rank |-> rank, new_state |-> PyNone, err |-> r.err,
          inv |-> Append(inv, got)]
    ELSE ProcessLayerFrom(block, n, idx + 1, r.out, rank, r.new_state,
                          Append(spikes, r.out), Append(new_state, r.new_state),
                          Append(inv, got))

\* block(out, g) for g = state[idx] (or the exception of reading it).
ProcessLayerBlock(block, n, idx, y, rank, spikes, new_state, inv, g) ==
    IF g.err # "None"
    THEN [x |-> y, rank |-> rank, new_state |-> PyNone, err |-> g.err, inv |-> inv]
    ELSE ProcessLayerBind(block, n, idx, y, rank, spikes, new_state, inv, g.val,
                          BlockForward(block, y, rank, g.val))

\* The loop of _process_layer from block idx on (idx counted from 1); state
\* is the local the loop reads state[idx] from and rebinds to the state the
\* block returned; inv lists the state each block was invoked with.  The
\* result x is torch.stack(spikes), of one dimension more.
ProcessLayerFrom(block, n, idx, y, rank, state, spikes, new_state, inv) ==
    IF idx > n
    THEN [x |-> y, rank |-> rank + 1, new_state |-> PyList(new_state),
          err |-> "None", inv |-> inv]
    ELSE ProcessLayerBlock(block, n, idx, y, rank, spikes, new_state, inv,
                           GetItem(state, idx))

\* _process_layer(x, layer, state) for a layer of n blocks.
ProcessLayer(block, n, x, rank, state) ==
    ProcessLayerFrom(block, n, 1, x, rank,
                     IF state = PyNone THEN PyList([i \in 1..n |-> PyNone]) ELSE state,
                     <<>>, <<>>, <<>>)

RECURSIVE ImplLayers(_, _, _, _, _, _)

\* x, sL = r for the pair r that _process_layer returned for layer L (or its
\* exception), and the layers after it.
ImplBind(c, L, x, s, r) ==
    IF r.err # "None"
    THEN [x |-> x, s |-> s, err |-> r.err, inv |-> r.inv]
    ELSE ImplLayers(c, L + 1, r.x, r.rank, [s EXCEPT ![L + 1] = r.new_state], r.inv)

\* The four _process_layer calls of one time step from layer L on; s holds
\* s0..s4 and inv the invocations of the last layer entered.
ImplLayers(c, L, x, rank, s, inv) ==
    IF L > Len(c.layers)
    THEN [x |-> x, s |-> s, err |-> "None", inv |-> inv]
    ELSE ImplBind(c, L, x, s, ProcessLayer(c.block, c.layers[L], x, rank, s[L + 1]))

RECURSIVE ForwardImplFrom(_, _, _, _, _)

\* The end of one time step with the result r of its layers: avgpool and
\* spikes.append, then the next time step.
ImplStep(c, X, t, r) ==
    IF r.err # "None"
    THEN [s |-> r.s, err |-> r.err, inv |-> r.inv, t |-> t]
    ELSE ForwardImplFrom(c, X, t + 1, r.s, r.inv)

\* x, s0 = l for the pair l of self.lif; sumpool (kernel 3, stride 2); the
\* four layers.
ImplStem(c, s, l) ==
    ImplLayers(c, 1, Tensor(l.Y.ch, l.Y.hw \div 2, l.Y.v * 3 * 3), 4,
               [s EXCEPT ![1] = DeepLeaf(l.s)], <<>>)

\* The loop of _forward_impl over the time steps of X from step t on: conv1
\* (64 planes, stride 2), bn1, lif, sumpool, the four layers, avgpool.
ForwardImplFrom(c, X, t, s, inv) ==
    IF t > Len(X)
    THEN [s |-> s, err |-> "None", inv |-> inv, t |-> t - 1]
    ELSE ImplStep(c, X, t,
                  ImplStem(c, s, LIFCellForward(Tensor(64, X[t].hw \div 2, 2 * X[t].v + 1),
                                                s[1])))

\* An incoming list of n per-block states, block i holding the values g + i.
GivenState(block, n, g) ==
    PyList([i \in 1..n |-> PyTuple([j \in 1..NumLIF(block) |-> PyVal(g + i)])])

\* ResNetBackbone(type): self.cfgs[type] raises KeyError for an unknown key.
ResNetBackboneInit(type) ==
    /\ backbone.pc = "new"
    /\ backbone' = IF type \in DOMAIN ResNetCfgs
                   THEN [backbone EXCEPT !.pc = "built", !.type = type]
                   ELSE [backbone EXCEPT !.pc = "failed", !.type = type, !.err = "KeyError"]
    /\ UNCHANGED <<graphVars, generator, acall>>

\* The backbone after _forward_impl(X) gave r.
AfterForwardImpl(X, r) ==
    [backbone EXCEPT !.pc = IF r.err = "None" THEN "returned" ELSE "raised",
                     !.op = "_forward_impl", !.L = 1, !.X = X,
                     !.n = ResNetCfgs[backbone.type].layers[1],
                     !.inv = r.inv, !.new_state = r.s[2], !.err = r.err]

\* backbone._forward_impl(X) for X of Len(X) time steps.
ForwardImpl(X) ==
    /\ backbone.pc = "built"
    /\ backbone' = AfterForwardImpl(X, ForwardImplFrom(ResNetCfgs[backbone.type], X, 1,
                                                        [i \in 1..5 |-> PyNone], <<>>))
    /\ UNCHANGED <<graphVars, generator, acall>>

\* The backbone after _process_layer(x, layerL, state) gave r.
AfterProcessLayer(L, x, n, state, r) ==
    [backbone EXCEPT !.pc = IF r.err = "None" THEN "returned" ELSE "raised",
                     !.op = "_process_layer", !.L = L, !.X = <<x>>, !.n = n,
                     !.given = state, !.inv = r.inv,
                     !.new_state = r.new_state, !.err = r.err]

\* backbone._process_layer(x, backbone.layerL, state) with state None
\* (absent) or the incoming list GivenState of one state per block.
ProcessLayerCall(L, x, absent, g) ==
    /\ backbone.pc = "built"
    /\ absent => g = 0
    /\ LET c == ResNetCfgs[backbone.type]
           state == IF absent THEN PyNone ELSE GivenState(c.block, c.layers[L], g)
       IN backbone' = AfterProcessLayer(L, x, c.layers[L], state,
                          ProcessLayer(c.block, c.layers[L], x, 4, state))
    /\ UNCHANGED <<graphVars, generator, acall>>

\* The time steps x of an input X: three channels, one value each.
TimeSteps == {Tensor(3, InputHW, v) : v \in InputVals}

NextResNet ==
    \/ \E type \in ResNetTypes : ResNetBackboneInit(type)
    \/ \E T \in 1..MaxT : \E X \in [1..T -> TimeSteps] : ForwardImpl(X)
    \/ \E L \in 1..4, x \in TimeSteps, absent \in BOOLEAN, g \in 0..1 :
          ProcessLayerCall(L, x, absent, g)

SpecResNet == Init /\ [][NextResNet]_vars

\* ================================================================== claims
\* Output channel count of one branch compiled from in_channels.
BranchOut(ic, branch_cfg) == MakeBranch(ic, branch_cfg, 0).channels

\* Every merge group of the tree, nested ones included, has branches that
\* resolve to one output channel count.
RECURSIVE GroupsAgree(_, _)
GroupsAgree(ic, tree) ==
    /\ \A a, b \in 1..Len(tree) : BranchOut(ic, tree[a]) = BranchOut(ic, tree[b])
    /\ \A b \in 1..Len(tree) : \A k \in 1..Len(tree[b]) :
         tree[b][k].kind = "list" =>
            GroupsAgree(BranchOut(ic, SubSeq(tree[b], 1, k - 1)), tree[b][k].sub)

\* The layers of a graph in construction order, nested graphs flattened.
RECURSIVE LayersOf(_)
RECURSIVE LayersOfBranch(_, _)
LayersOfBranch(branch, i) ==
    IF i > Len(branch) THEN <<>>
    ELSE (IF branch[i].cls = "BlockGen" THEN LayersOf(branch[i]) ELSE <<branch[i]>>)
         \o LayersOfBranch(branch, i + 1)

RECURSIVE LayersFrom(_, _)
LayersFrom(g, b) ==
    IF b > Len(g.net) THEN <<>> ELSE LayersOfBranch(g.net[b], 1) \o LayersFrom(g, b + 1)

LayersOf(g) == LayersFrom(g, 1)

Returned == pc \in {"ready", "done"} /\ steps > 0

\* C1: construction never succeeds with a merge group (nested ones included)
\* whose branches, compiled from the same input channel count, resolve to
\* different output channel counts.
C1_MismatchRejected ==
    pc \notin {"new", "failed"} => GroupsAgree(in_channels, cfgs)

\* C2: a forward call never mutates the State Container it was given: after
\* the call returns, the caller's incoming container reads as before the call.
C2_ArgumentUnchanged ==
    (Returned /\ call.kind \in {"thread", "built"}) => Deep(heap, call.arg) = call.snap

\* C3: forward with state absent returns a container with one entry per
\* branch and one slot per layer position, a nested graph's slot being a
\* container of the nested graph's shape, recursively.
C3_ShapeIsomorphism ==
    (Returned /\ call.kind = "absent") => Mirrors(net, heap, ret, FALSE)

C3_Witness ==
    /\ Returned /\ call.kind = "absent"
    /\ Len(net.net) = 2
    /\ Len(net.net[1]) # Len(net.net[2])
    /\ \E i \in 1..Len(net.net[2]) : net.net[2][i].cls = "BlockGen"
    /\ Mirrors(net, heap, ret, FALSE)

\* C4: state slots are positional.  A stateful layer receives absent state on
\* a call with state absent; on a call with the container the previous call
\* returned, every stateful position is invoked with exactly the state the
\* same position (same path, same layer instance) produced on that call.
C4_PositionalSlots ==
    /\ call.kind = "absent" => \A e \in call.log : e.recv = None
    /\ call.kind = "thread" =>
          \A e \in call.log :
             \E f \in call.prev : f.path = e.path /\ f.id = e.id /\ f.prod = e.recv
    /\ (Returned /\ call.kind = "thread") =>
          {e.path : e \in call.log} = {f.path : f \in call.prev}

C4_Witness ==
    /\ Returned /\ call.kind = "thread"
    /\ \E e, f \in call.log :
          /\ e.path # f.path
          /\ Len(e.path) > 2
          /\ e.recv.t = "val" /\ f.recv.t = "val"
          /\ e.recv # f.recv

\* C5: a forward call with a State Container whose shape does not mirror the
\* graph (wrong number of branch entries, or a branch entry of the wrong
\* length) raises; it never returns.
C5_MisshapedStateRaises ==
    (steps > 0 /\ call.kind = "built" /\ ~call.conforms) => pc = "raised"

\* C6: for a graph with no temporally-stateful layer at any depth, every
\* container returned over repeated calls (absent first, then threaded) is
\* structurally present and has every leaf slot absent.
C6_StatelessStaysAbsent ==
    (Returned /\ call.kind \in {"absent", "thread"} /\ Stateless(net)) =>
        /\ Mirrors(net, heap, ret, FALSE)
        /\ LeavesAbsent(net, heap, ret)

C6_Witness ==
    /\ Returned /\ call.kind = "thread" /\ steps = MaxSteps
    /\ Stateless(net)
    /\ \E b \in 1..Len(net.net) : \E i \in 1..Len(net.net[b]) : net.net[b][i].cls = "BlockGen"
    /\ LeavesAbsent(net, heap, ret)

\* C7 (as claimed): inlining a nested single-branch tree yields a graph with
\* the same output channel count and the same state-mask length.
C7_SameMaskLength ==
    probe.kind = "inline" =>
        /\ probe.errB = err.type
        /\ probe.errB = "None" =>
              /\ probe.flat.out_channels = net.out_channels
              /\ Len(probe.flat.branch_state[probe.b]) = Len(net.branch_state[probe.b])

\* C7 (amended): inlining a nested single-branch tree gives a construction
\* that raises exactly when the nested form raises, and otherwise a graph
\* with the same output channel count whose state mask for that branch has
\* one bit per inlined element in place of the single bit of the nested graph.
C7_InlineTransparent ==
    probe.kind = "inline" =>
        /\ probe.errB = err.type
        /\ probe.errB = "None" =>
              /\ probe.flat.out_channels = net.out_channels
              /\ Len(probe.flat.branch_state[probe.b]) =
                    Len(net.branch_state[probe.b]) - 1
                    + Len(net.net[probe.b][probe.i].branch_state[1])

C7_Witness ==
    /\ probe.kind = "inline"
    /\ probe.errB = "None"
    /\ Len(net.net[probe.b][probe.i].branch_state[1]) > 1
    /\ in_channels # net.out_channels
    /\ probe.flat.out_channels = net.out_channels

\* C8: get of every LayerGen variant returns a fresh layer instance, so that
\* a branch of descriptors compiles and no two positions share an instance.
C8_GetFreshInstance ==
    /\ pc = "failed" => err.type # "TypeError"
    /\ pc = "ready" =>
          LET ls == LayersOf(net)
          IN \A i, j \in 1..Len(ls) : ls[i].inst /\ (ls[i].id = ls[j].id => i = j)

\* C9: ModelGen with an unregistered preset name fails with an error that
\* lists the registered names and produces no graph; with a registered name
\* or a literal it has one graph and exposes that graph's out_channels.
C9_ModelGenPresets ==
    (via = "ModelGen") =>
        IF cfg # "" /\ cfg \notin DOMAIN DefaultCfgs
        THEN pc = "failed" /\ net = NoNet /\ DOMAIN DefaultCfgs \subseteq err.args
        ELSE pc # "failed" /\ net # NoNet /\ out_channels = net.out_channels

\* C10: reordering the branches of a merge group, and the branch entries of
\* the incoming container alike, leaves the output of one forward call
\* unchanged and returns the same per-branch states in the new order.
C10_MergeCommutes ==
    probe.kind = "permute" =>
        /\ probe.errA = probe.errB
        /\ probe.errA = "None" =>
              /\ probe.outA = probe.outB
              /\ probe.stB.items =
                    [j \in 1..Len(probe.p) |-> probe.stA.items[probe.p[j]]]

C10_Witness ==
    /\ probe.kind = "permute" /\ probe.threaded
    /\ probe.errA = "None"
    /\ Len(probe.p) > 2
    /\ probe.p[1] # 1
    /\ probe.stA.items[1] # probe.stA.items[probe.p[1]]

\* C11: a Storage tap returns its input unchanged on every forward, and
\* after any non-empty sequence of forward calls get_storage of each tap
\* returns the input of the most recent forward call of that tap: the input
\* it received in the last graph call if it ran there, its earlier content
\* otherwise; a branch that ends in a tap outputs what the tap holds.
C11_StorageHoldsLatest ==
    (steps > 0) =>
        /\ \A t \in call.taps : t.Y = t.X /\ GetStorage(stor, t.id) = t.X
        /\ \A e \in call.stor :
              (\A t \in call.taps : t.id # e.id) => GetStorage(stor, e.id) = e.X
        /\ \A e \in stor : \E t \in call.taps \cup call.stor : t.id = e.id
        /\ Returned =>
              \A b \in 1..Len(call.outs) :
                  LET branch == net.net[b]
                  IN (branch # <<>> /\ branch[Len(branch)].cls = "Storage") =>
                        call.outs[b] = GetStorage(stor, branch[Len(branch)].id)

\* The second call of a graph with a tap, with an input unlike the first.
C11_Witness ==
    /\ Returned /\ steps = 2
    /\ \E t \in call.taps :
          /\ t.X = Tensor(8, InputHW, 2 * call.X.v + 1)
          /\ \E e \in call.stor : e.id = t.id /\ e.X # t.X
          /\ GetStorage(stor, t.id) = t.X

\* C12: every call of AnchorGenerator on a feature map X returns the anchors
\* computed for that X: H * W * (len(sizes) + len(ratios) - 1) rows of 4
\* coordinates, H and W being the height and width of the X of that call.
C12_AnchorsForThisX ==
    (acall.n > 0) =>
        /\ Len(acall.ret) = acall.H * acall.W * (generator.sizes + generator.ratios - 1)
        /\ \A r \in 1..Len(acall.ret) :
              acall.ret[r].cols = 4 /\ acall.ret[r].scale = <<acall.H, acall.W>>

\* The graph g compiled from tree has, per branch, a mask as long as the
\* branch whose bit i is set exactly when element i is a LIF descriptor or a
\* nested tree (the positions called with a state), nested graphs likewise.
RECURSIVE MaskMatches(_, _)
MaskMatches(g, tree) ==
    /\ Len(g.net) = Len(tree)
    /\ Len(g.branch_state) = Len(tree)
    /\ \A b \in 1..Len(tree) :
          /\ Len(g.net[b]) = Len(tree[b])
          /\ Len(g.branch_state[b]) = Len(g.net[b])
          /\ \A i \in 1..Len(tree[b]) :
                /\ g.branch_state[b][i] = (tree[b][i].kind \in {"LIF", "list"})
                /\ tree[b][i].kind = "list" => MaskMatches(g.net[b][i], tree[b][i].sub)

\* C13: compilation records per branch a boolean mask of the length of the
\* branch's layer sequence, bit i set exactly when position i requires state;
\* the one-branch tree [Conv(8), LIF, Conv(8)] with 3 input channels has the
\* mask [false, true, false], and its run with state absent returns the
\* branch entry [absent, <state>, absent].
C13_StateMask ==
    (net # NoNet) =>
        /\ MaskMatches(net, cfgs)
        /\ (cfgs = << <<Conv(8), LIF, Conv(8)>> >> /\ in_channels = 3) =>
              /\ net.branch_state = << <<FALSE, TRUE, FALSE>> >>
              /\ (Returned /\ call.kind = "absent") =>
                    LET e == Deep(heap, ret).items[1].items
                    IN /\ Len(e) = 3
                       /\ e[1] = DeepLeaf(None)
                       /\ e[2].t = "val"
                       /\ e[3] = DeepLeaf(None)

C13_Witness ==
    /\ cfgs = << <<Conv(8), LIF, Conv(8)>> >> /\ in_channels = 3
    /\ Returned /\ call.kind = "absent"
    /\ net.branch_state = << <<FALSE, TRUE, FALSE>> >>
    /\ Deep(heap, ret).items[1].items[2].t = "val"

\* The running channel count before position k of a branch (after the last
\* position for k = Len + 1), walking left to right from ic: a Conv sets it
\* to its out_channels, a nested tree to the nested graph's out_channels,
\* every other descriptor leaves it unchanged.
RECURSIVE Running(_, _, _, _)
Running(layers, branch_cfg, k, ic) ==
    IF k = 1 THEN ic
    ELSE IF branch_cfg[k - 1].kind = "Conv" THEN branch_cfg[k - 1].out
    ELSE IF branch_cfg[k - 1].kind = "list" THEN layers[k - 1].out_channels
    ELSE Running(layers, branch_cfg, k - 1, ic)

\* Every layer of g that is built for a channel count is built for the
\* running count at its position, nested graphs likewise, and g exposes the
\* count after the last position of its last branch.
RECURSIVE ChannelsWalk(_, _, _)
ChannelsWalk(g, tree, ic) ==
    /\ \A b \in 1..Len(tree) : \A k \in 1..Len(tree[b]) :
          LET layer == g.net[b][k]
              before == Running(g.net[b], tree[b], k, ic)
          IN /\ layer.cls \in {"Conv2d", "BatchNorm2d", "BlockGen"} => layer.inc = before
             /\ layer.cls = "Conv2d" => layer.outc = tree[b][k].out
             /\ layer.cls = "BlockGen" => ChannelsWalk(layer, tree[b][k].sub, before)
    /\ Len(tree) > 0 =>
          g.out_channels = Running(g.net[Len(tree)], tree[Len(tree)],
                                   Len(tree[Len(tree)]) + 1, ic)

\* C14: the output channel count of a compiled branch is the running count
\* obtained by walking the branch left to right from in_channels (Conv sets
\* it, a nested tree is compiled with it as input and sets it to the nested
\* graph's out_channels, anything else keeps it); each branch of a returning
\* call outputs a tensor of that many channels.
C14_RunningChannels ==
    (net # NoNet) =>
        /\ ChannelsWalk(net, cfgs, in_channels)
        /\ \A b \in 1..Len(cfgs) :
              /\ BranchOut(in_channels, cfgs[b]) =
                    Running(net.net[b], cfgs[b], Len(cfgs[b]) + 1, in_channels)
              /\ (Returned /\ b <= Len(call.outs)) =>
                    call.outs[b].ch = BranchOut(in_channels, cfgs[b])

\* A returned call of a graph whose branch has a layer before a nested tree
\* that changes the channel count, and a layer after it.
C14_Witness ==
    /\ Returned
    /\ \E b \in 1..Len(cfgs) : \E k \in 1..Len(cfgs[b]) :
          /\ cfgs[b][k].kind = "list"
          /\ k < Len(cfgs[b])
          /\ net.net[b][k].inc = in_channels
          /\ net.net[b][k].out_channels # in_channels
          /\ b <= Len(call.outs)
          /\ call.outs[b].ch = net.net[b][k].out_channels
    /\ \E b \in 1..Len(cfgs) : \E k \in 1..Len(cfgs[b]) :
          /\ cfgs[b][k].kind = "list"
          /\ k > 1
          /\ net.net[b][k].out_channels # in_channels

\* C15: an empty branch is a passthrough: it compiles with the input channel
\* count as its output count and an empty mask, it contributes the
\* unmodified input tensor to the merge, and its entry in the returned
\* container is an empty sequence; a merge group of one branch returns that
\* branch's final tensor unchanged.
C15_EmptyBranchPassthrough ==
    (net # NoNet) =>
        /\ \A b \in 1..Len(cfgs) :
              (cfgs[b] = <<>>) =>
                  /\ BranchOut(in_channels, cfgs[b]) = in_channels
                  /\ net.net[b] = <<>> /\ net.branch_state[b] = <<>>
                  /\ (Returned /\ b <= Len(call.outs)) =>
                        /\ call.outs[b] = call.X
                        /\ Deep(heap, ret).items[b].items = <<>>
        /\ (Returned /\ Len(call.outs) = 1) => out = call.outs[1]

\* C16: _process_layer, for a layer of n blocks called with an incoming list
\* of n per-block states, invokes block idx with element idx of that list
\* and returns a new-state list with one entry per block; in _forward_impl
\* the list a layer returned at one time step is its incoming list at the
\* next, so every time step of X is processed.
C16_ProcessLayerThreads ==
    /\ (backbone.op = "_process_layer" /\ backbone.given # PyNone) =>
          /\ backbone.err = "None"
          /\ Len(backbone.inv) = backbone.n
          /\ \A idx \in 1..backbone.n : backbone.inv[idx] = backbone.given.items[idx]
          /\ backbone.new_state.t = "list"
          /\ Len(backbone.new_state.items) = backbone.n
    /\ (backbone.op = "_forward_impl") =>
          /\ backbone.err = "None"
          /\ backbone.new_state.t = "list"
          /\ Len(backbone.new_state.items) = backbone.n

====
